---- MODULE Spec2Model ----
(***************************************************************************)
(* Session lifecycle of the Globegenius frontend: the credential store     *)
(* (localStorage 'access_token'), the axios request/response interceptors  *)
(* of services/api.js, the AuthProvider of contexts/AuthContext.js, the    *)
(* fetch-based admin service and the Google callback page.                 *)
(*                                                                         *)
(* Execution is single threaded: every action below is one event-loop     *)
(* task (a user gesture, or the continuation that runs when a response     *)
(* arrives).  The calls in flight are the elements of the bag `calls`.              *)
(***************************************************************************)
EXTENDS Integers, FiniteSets, Bags, TLC

\* Number of calls that may be in flight at the same time.
MaxCalls == 2

\* Number of calls that may be in flight at the same time where startup is
\* checked for progress.
MaxStartupCalls == 1

\* The accounts the backend knows (the e-mail addresses of the spec's scenarios).
Users == {"admin@example.com", "x@example.com"}

\* localStorage.getItem('access_token') of an empty store.
NoToken == ""

\* useState(null): no cached identity.  `user?.is_admin` of null is falsy.
NullUser == [email |-> "", is_admin |-> FALSE, first_name |-> ""]

\* What `login(data.user, data.access_token)` of the Google callback page
\* submits as username: URLSearchParams stringifies the user object.
ObjEmail == "[object Object]"

----------------------------------------------------------------------------
(* The backend, seen from the client.                                      *)

\* The bearer token the authentication endpoint issues for an account.
TokenOf(u) == IF u = "admin@example.com" THEN "jwt-admin" ELSE "jwt-x"

Tokens == {TokenOf(u) : u \in Users}

\* The identity the identity endpoint returns for a token it accepts.
IdentityOf(t) ==
    IF t = "jwt-admin"
    THEN [email |-> "admin@example.com", is_admin |-> TRUE, first_name |-> ""]
    ELSE [email |-> "x@example.com", is_admin |-> FALSE, first_name |-> ""]

\* The first names the profile form submits.
Patches == {" Ann"}

\* The representation PUT /users/me returns for a token it accepts and a
\* submitted first name: the server stores the name trimmed.
UpdateReplies(t, p) ==
    { [IdentityOf(t) EXCEPT !.first_name = IF p = " Ann" THEN "Ann" ELSE p] }

\* Statuses of POST /auth/login (0: the request failed without a response).
CredStatuses(cred) == IF cred THEN {200, 500, 0} ELSE {400, 401, 500, 0}

\* Statuses of a call that needs the bearer token (GET/PUT /users/me, data
\* endpoints): 200 only for a token the server issued; 401 when the token is
\* missing, invalid or expired.
AuthedStatuses(hdr) == IF hdr \in Tokens THEN {200, 401, 403, 500, 0}
                       ELSE {401, 403, 500, 0}

\* Statuses of POST /users/signup.
SignupStatuses == {200, 400, 422, 500, 0}

\* Statuses of POST /auth/google/callback.
GoogleStatuses == {200, 400, 401, 500, 0}

\* The `detail` of the 400 the signup endpoint answers for a taken address.
DupEmailDetail == "A user with this email already exists"

\* The `detail` strings of a failed POST /auth/login ("": the body has none).
LoginDetails(st) == IF st = 400 THEN {"", "Incorrect email or password"} ELSE {""}

\* The `detail` of a failed POST /users/signup: for a 400 a string, for a 422
\* the first message of the first field of the mapping ("": none).
SignupDetails(st) ==
    IF st = 400 THEN {"", DupEmailDetail, "Password too short"}
    ELSE IF st = 422 THEN {"", "value is not a valid email address"}
    ELSE {""}

----------------------------------------------------------------------------
VARIABLES
    token,       \* localStorage 'access_token'
    user,        \* AuthProvider state `user`
    loading,     \* AuthProvider state `loading`
    ca,          \* the checkAuth call started on mount: [pc, hdr]
    calls,       \* bag of the calls in flight, see Call
    redirects,   \* assignments of window.location.href in this document
    clears,      \* localStorage.removeItem calls made while handling a 401 response
    solo,        \* "anon" or "yes": a login or signup call started with nothing else
                 \* running ("anon": from an empty store and no identity) and only
                 \* its own continuations ran since; "no" otherwise
    last         \* the handler that ran last, see Event

vars == <<token, user, loading, ca, calls, redirects, clears, solo, last>>

\* A call in flight: what started it, the await it is suspended at, the
\* submitted e-mail, whether the submitted credentials are valid, and the
\* Authorization header of its pending request (for the credential, signup
\* and Google submissions, which the server answers whatever the header, none
\* is recorded); for a profile update, the first name it submits.
Call(kind, pc, email, cred, hdr) ==
    [kind |-> kind, pc |-> pc, email |-> email, cred |-> cred, hdr |-> hdr,
     patch |-> ""]

Pending == BagToSet(calls)

Started(r) == calls (+) SetToBag({r})

Resolved(r) == calls (-) SetToBag({r})

Continued(r, s) == (calls (-) SetToBag({r})) (+) SetToBag({s})

\* The handler sent no request.
NoSend == "-"

\* What the handler that ran last did: its name, the status of the response it
\* handled (-1: none), the Authentication Outcome it returned ("none": it
\* returned none) and the e-mail its call submitted; then what started its
\* call, the Authorization header of the request it sent, the status of the
\* error its catch block received (-1: the catch did not run), the `detail`
\* of the response body, the message of the outcome it returned, the error
\* notifications shown by the response interceptor and by the caller,
\* whether the page that called shows the failure inline, and the text the
\* login form shows inline ("": none); last, the representation a profile
\* update received.
Event(o, st, out, who) ==
    [op |-> o, st |-> st, out |-> out, who |-> who,
     kind |-> "", sent |-> NoSend, caught |-> -1, detail |-> "", msg |-> "",
     ptoast |-> 0, ctoast |-> 0, inline |-> FALSE, shown |-> "",
     data |-> NullUser]

\* The handler sent a request with the Authorization header hdr.
Sent(e, hdr) == [e EXCEPT !.sent = hdr]

\* window.location.href was assigned: the document is about to be replaced.
navPending == redirects > 0

\* A user gesture can start a call: the application is mounted, the document
\* is not being replaced, and the bound of the model leaves room.
CanStart == /\ ca.pc # "start"
            /\ ~navPending
            /\ BagCardinality(calls) < MaxCalls

\* Nothing is running: no call in flight, startup finished.
Quiescent == /\ calls = EmptyBag
             /\ ca.pc = "done"
             /\ ~navPending

\* How a login or signup call starts, for `solo`.
SoloStart == IF ~Quiescent THEN "no"
             ELSE IF token = NoToken /\ user = NullUser THEN "anon" ELSE "yes"

Authenticated == user # NullUser /\ ~loading
Anonymous     == user = NullUser /\ ~loading

\* A route guard that decides on the identity alone.
PrivateRoute_NoPlaceholder(l, u) == IF u # NullUser THEN "view" ELSE "login"

\* components/PrivateRoute, the element of the protected routes of App.js:
\* what it renders for the provider's `loading` and `user`: the loading
\* placeholder, the requested view, or a redirect to the login view.
PrivateRoute(l, u) ==
    IF l THEN "placeholder" ELSE IF u # NullUser THEN "view" ELSE "login"

----------------------------------------------------------------------------
(* services/api.js: the interceptors of the axios instance.                *)

\* Request interceptor: the Authorization header of a request sent while the
\* store holds `tok` (NoToken: no header).
RequestHeader(tok) == tok

\* A response interceptor that also clears the store on a 400.
InterceptToken_Any4xx(st, tok) == IF st \in {400, 401} THEN NoToken ELSE tok

\* Response interceptor, 401 branch: the store after a failed response.
InterceptToken(st, tok) == IF st = 401 THEN NoToken ELSE tok

\* Response interceptor, 401 branch: whether window.location.href is assigned.
InterceptRedirect(st) == st = 401

\* Response interceptor: the number of location assignments after a failed
\* response with status st.
Redirected(st) == redirects + (IF InterceptRedirect(st) THEN 1 ELSE 0)

\* Response interceptor: the number of removeItem calls after a failed
\* response with status st.
Cleared(st) == clears + (IF InterceptToken(st, "t") = NoToken THEN 1 ELSE 0)

\* A response interceptor that stays silent on a failure without response.
PipelineToasts_NoNetwork(st) == IF st >= 500 THEN 1 ELSE 0

\* Response interceptor, lines 164-168: the error notifications it shows for
\* a failed response with status st (0: no response).
PipelineToasts(st) == IF st >= 500 \/ st = 0 THEN 1 ELSE 0

\* A response interceptor that resolves the failures it has notified.
InterceptReject_Swallow(st) == IF st >= 500 \/ st = 0 THEN 200 ELSE st

\* Response interceptor, line 169: `return Promise.reject(error)`, the status
\* of the error the awaiting caller receives in its catch block (200 would
\* resume the caller after its await).
InterceptReject(st) == st

\* How the await of a call through the axios instance settles for a response
\* with status st: 200 resumes the caller, anything else enters its catch.
Settled(st) == IF st = 200 THEN 200 ELSE InterceptReject(st)

\* The record of a handler of the axios instance for call kind k: when its
\* catch ran, the error it caught, the notifications shown, whether the
\* calling page shows the failure inline, and the message returned.
Handled(e, k, seen, ctoast, inline, d, msg) ==
    IF seen = 200 THEN [e EXCEPT !.kind = k]
    ELSE [e EXCEPT !.kind = k, !.caught = seen, !.detail = d, !.msg = msg,
                   !.ptoast = PipelineToasts(e.st), !.ctoast = ctoast,
                   !.inline = inline]

\* The record of a handler of a fetch call, which no interceptor sees.
Thrown(e, k, ctoast, inline) ==
    IF e.st = 200 THEN [e EXCEPT !.kind = k]
    ELSE [e EXCEPT !.kind = k, !.caught = e.st, !.ctoast = ctoast, !.inline = inline]

----------------------------------------------------------------------------
(* contexts/AuthContext.js                                                  *)

Init ==
    /\ token \in {NoToken} \cup Tokens
    /\ user = NullUser
    /\ loading = TRUE
    /\ ca = [pc |-> "start", hdr |-> NoToken]
    /\ calls = EmptyBag
    /\ redirects = 0
    /\ clears = 0
    /\ solo = "no"
    /\ last = Event("load", -1, "none", "")

\* A checkAuth that leaves `loading` as it is.
CheckAuthFinally_Keep(l) == l

\* checkAuth, lines 41-43: `finally { setLoading(false) }`.
CheckAuthFinally(l) == FALSE

\* A checkAuth that fetches the identity whatever the store holds.
CheckAuthFetches_Always(tok) == TRUE

\* checkAuth, line 30: the identity fetch is sent only when a token is stored.
CheckAuthFetches(tok) == tok # NoToken

\* useEffect on mount -> checkAuth up to its await.
CheckAuthStart ==
    /\ ca.pc = "start"
    /\ IF CheckAuthFetches(token)
       THEN /\ ca' = [pc |-> "awaitMe", hdr |-> RequestHeader(token)]
            /\ loading' = loading
       ELSE /\ ca' = [pc |-> "done", hdr |-> NoToken]
            /\ loading' = CheckAuthFinally(loading)
    /\ last' = Sent(Event("checkAuth", -1, "none", ""),
                    IF CheckAuthFetches(token) THEN RequestHeader(token) ELSE NoSend)
    /\ solo' = "no"
    /\ UNCHANGED <<token, user, calls, redirects, clears>>

\* A checkAuth whose catch block leaves the store alone.
CheckAuthCatchToken_Keep(tok) == tok

\* checkAuth, line 38: the store after the catch block.
CheckAuthCatchToken(tok) == NoToken

\* checkAuth after `await userAPI.me()`.
CheckAuthResp(st) ==
    /\ ca.pc = "awaitMe"
    /\ st \in AuthedStatuses(ca.hdr)
    /\ IF Settled(st) = 200
       THEN /\ user' = IdentityOf(ca.hdr)
            /\ token' = token
            /\ redirects' = redirects /\ clears' = clears
       ELSE /\ user' = user
            /\ token' = CheckAuthCatchToken(InterceptToken(st, token))
            /\ redirects' = Redirected(st)
            /\ clears' = Cleared(st) + (IF st = 401 THEN 1 ELSE 0)
    /\ loading' = CheckAuthFinally(loading)
    /\ ca' = [pc |-> "done", hdr |-> NoToken]
    /\ last' = Handled(Event("checkAuthResp", st, "none", ""),
                       "checkAuth", Settled(st), 0, FALSE, "", "")
    /\ solo' = "no"
    /\ UNCHANGED calls

\* login(email, password) up to `await authAPI.login`.
LoginStart(email, cred) ==
    /\ CanStart
    /\ calls' = Started(Call("login", "awaitLogin", email, cred, NoToken))
    /\ solo' = SoloStart
    /\ last' = Sent(Event("login", -1, "none", email), RequestHeader(token))
    /\ UNCHANGED <<token, user, loading, ca, redirects, clears>>

\* A login that sends the identity fetch before it writes the token.
LoginMeHeader_Stale(fresh, stale) == RequestHeader(stale)

\* login, lines 52-56: the header of the identity fetch, given the token of the
\* response and the store before it was written.
LoginMeHeader(fresh, stale) == RequestHeader(fresh)

\* A login whose catch block ignores the body of the response.
LoginMessage_NoDetail(st, d) ==
    IF st = 0 THEN "Impossible de contacter le serveur"
    ELSE IF st = 400 THEN "Email ou mot de passe incorrect"
    ELSE IF st = 401 THEN "Authentification echouee"
    ELSE IF st >= 500 THEN "Erreur serveur, veuillez reessayer plus tard"
    ELSE "Erreur de connexion"

\* login, lines 64-77: the message of the failure its catch block returns
\* (the strings are written without their accents).
LoginMessage(st, d) ==
    IF st = 0 THEN "Impossible de contacter le serveur"
    ELSE IF st = 400 THEN (IF d # "" THEN d ELSE "Email ou mot de passe incorrect")
    ELSE IF st = 401 THEN "Authentification echouee"
    ELSE IF st >= 500 THEN "Erreur serveur, veuillez reessayer plus tard"
    ELSE "Erreur de connexion"

\* Login.onSubmit, line 39: the text set as loginError for a failed outcome.
LoginInline(error) == IF error # "" THEN error ELSE "Echec de connexion"

\* The record of a login handler: the login form, when it made the call,
\* shows the message of a failed outcome inline.
Shown(e, k) == IF k = "login" /\ e.caught # -1
               THEN [e EXCEPT !.shown = LoginInline(e.msg)]
               ELSE e

\* A login whose catch block throws the error again.
LoginCatch_Rethrow(seen) == "rejected"

\* login, lines 62-81: the catch block returns {success: false, error}.
LoginCatch(seen) == "failure"

\* A signup that reports success whatever its login returned.
SignupReturn_Success(loginOut) == IF loginOut = "none" THEN "none" ELSE "success"

\* signup, lines 93-100: what it returns for the outcome of its login.
SignupReturn(loginOut) == loginOut

\* What the call started as kind k returns for the outcome of its login.
Returned(k, loginOut) == IF k = "signup" THEN SignupReturn(loginOut) ELSE loginOut

\* login after `await authAPI.login` (also the auto-login of signup and the
\* login call of the Google callback page).
LoginCredResp(r, st, d) ==
    /\ r \in Pending
    /\ r.pc = "awaitLogin"
    /\ st \in CredStatuses(r.cred)
    /\ d \in LoginDetails(st)
    /\ IF Settled(st) = 200
       THEN /\ token' = TokenOf(r.email)
            /\ calls' = Continued(r, [r EXCEPT !.pc = "awaitMe",
                                               !.hdr = LoginMeHeader(token', token)])
            /\ redirects' = redirects /\ clears' = clears
       ELSE /\ token' = InterceptToken(st, token)
            /\ calls' = Resolved(r)
            /\ redirects' = Redirected(st) /\ clears' = Cleared(st)
    /\ solo' = solo
    /\ last' = LET out == Returned(r.kind, IF Settled(st) = 200 THEN "none"
                                            ELSE LoginCatch(Settled(st)))
                    e   == Event("loginCredResp", st, out, r.email)
                IN  IF Settled(st) = 200
                    THEN Sent(Handled(e, r.kind, 200, 0, FALSE, "", ""),
                              LoginMeHeader(token', token))
                    ELSE Shown(Handled(e, r.kind, Settled(st), 1, r.kind = "login",
                                       d, LoginMessage(Settled(st), d)), r.kind)
    /\ UNCHANGED <<user, loading, ca>>

\* A login that does not cache the identity it fetched.
LoginCachedUser_Keep(data, old) == old

\* login, line 57: the identity cached after a successful identity fetch.
LoginCachedUser(data, old) == data

\* login after `await userAPI.me()`.
LoginMeResp(r, st) ==
    /\ r \in Pending
    /\ r.pc = "awaitMe"
    /\ st \in AuthedStatuses(r.hdr)
    /\ IF Settled(st) = 200
       THEN /\ user' = LoginCachedUser(IdentityOf(r.hdr), user)
            /\ token' = token
            /\ redirects' = redirects /\ clears' = clears
       ELSE /\ user' = user
            /\ token' = InterceptToken(st, token)
            /\ redirects' = Redirected(st) /\ clears' = Cleared(st)
    /\ calls' = Resolved(r)
    /\ solo' = solo
    /\ last' = LET out == Returned(r.kind, IF Settled(st) = 200 THEN "success"
                                            ELSE LoginCatch(Settled(st)))
                IN  Shown(Handled(Event("loginMeResp", st, out, r.email), r.kind,
                                  Settled(st), 1, r.kind = "login", "",
                                  LoginMessage(Settled(st), "")), r.kind)
    /\ UNCHANGED <<loading, ca>>

\* signup(userData) up to `await authAPI.signup`.
SignupStart(email) ==
    /\ CanStart
    /\ calls' = Started(Call("signup", "awaitSignup", email, TRUE, NoToken))
    /\ solo' = SoloStart
    /\ last' = Sent(Event("signup", -1, "none", email), RequestHeader(token))
    /\ UNCHANGED <<token, user, loading, ca, redirects, clears>>

\* A signup that surfaces every `detail` string as it came.
SignupMessage_Raw(st, d) ==
    IF d # "" THEN d
    ELSE IF st = 400 THEN "Donnees invalides"
    ELSE IF st = 422 THEN "Format de donnees incorrect"
    ELSE "Erreur lors de l'inscription"

\* signup, lines 105-126: the message of the failure its catch block returns
\* (the strings are written without their accents).
SignupMessage(st, d) ==
    IF st = 400
    THEN IF d = DupEmailDetail THEN "Un utilisateur avec cet email existe deja"
         ELSE IF d # "" THEN d ELSE "Donnees invalides"
    ELSE IF st = 422 THEN (IF d # "" THEN d ELSE "Format de donnees incorrect")
    ELSE "Erreur lors de l'inscription"

\* A signup that logs in whatever the account creation answered.
SignupAutoLogin_Always(seen) == TRUE

\* signup, lines 87-93: login is called when the await of the account
\* creation returned.
SignupAutoLogin(seen) == seen = 200

\* signup, lines 101-130: the catch block returns {success: false, error}.
SignupCatch(seen) == "failure"

\* signup after `await authAPI.signup`: on success it calls login with the
\* credentials just registered, otherwise its catch returns the failure.
SignupResp(r, st, d) ==
    /\ r \in Pending
    /\ r.pc = "awaitSignup"
    /\ st \in SignupStatuses
    /\ d \in SignupDetails(st)
    /\ IF SignupAutoLogin(Settled(st))
       THEN /\ calls' = Continued(r, [r EXCEPT !.pc = "awaitLogin"])
            /\ token' = token
            /\ redirects' = redirects /\ clears' = clears
       ELSE /\ calls' = Resolved(r)
            /\ token' = InterceptToken(st, token)
            /\ redirects' = Redirected(st) /\ clears' = Cleared(st)
    /\ solo' = solo
    /\ last' = IF SignupAutoLogin(Settled(st))
                THEN Sent(Handled(Event("signupResp", st, "none", r.email),
                                  r.kind, 200, 0, FALSE, "", ""),
                          RequestHeader(token))
                ELSE Handled(Event("signupResp", st, SignupCatch(Settled(st)), r.email), r.kind,
                             Settled(st), 1, FALSE, d, SignupMessage(Settled(st), d))
    /\ UNCHANGED <<user, loading, ca>>

\* logout, line 134: the store after logout.
LogoutToken(tok) == NoToken

\* A logout that forgets to reset the cached identity.
LogoutUser_Keep(u) == u

\* logout, line 135: the cached identity after logout.
LogoutUser(u) == NullUser

\* logout(), offered by the views that render once startup has settled.
Logout ==
    /\ ca.pc = "done"
    /\ token' = LogoutToken(token)
    /\ user' = LogoutUser(user)
    /\ solo' = "no"
    /\ last' = Event("logout", -1, "none", "")
    /\ UNCHANGED <<loading, ca, calls, redirects, clears>>

----------------------------------------------------------------------------
(* Other callers of the axios instance.                                    *)

\* Any data call through the axios instance (flightAPI, alertAPI, ...).
ApiSend ==
    /\ CanStart
    /\ calls' = Started(Call("api", "awaitApi", "", FALSE, RequestHeader(token)))
    /\ solo' = "no"
    /\ last' = Sent(Event("api", -1, "none", ""), RequestHeader(token))
    /\ UNCHANGED <<token, user, loading, ca, redirects, clears>>

ApiResp(r, st) ==
    /\ r \in Pending
    /\ r.pc = "awaitApi"
    /\ st \in AuthedStatuses(r.hdr)
    /\ calls' = Resolved(r)
    /\ IF Settled(st) = 200
       THEN token' = token /\ redirects' = redirects /\ clears' = clears
       ELSE token' = InterceptToken(st, token) /\ redirects' = Redirected(st) /\ clears' = Cleared(st)
    /\ solo' = "no"
    /\ last' = Handled(Event("apiResp", st, "none", ""), r.kind, Settled(st),
                       0, FALSE, "", "")
    /\ UNCHANGED <<user, loading, ca>>

\* Profile.handleSave up to `await userAPI.updateProfile`; the page shows its
\* form only with a cached identity.
UpdateStart(p) ==
    /\ CanStart
    /\ user # NullUser
    /\ calls' = Started([Call("update", "awaitUpdate", "", FALSE, RequestHeader(token))
                            EXCEPT !.patch = p])
    /\ solo' = "no"
    /\ last' = Sent(Event("update", -1, "none", ""), RequestHeader(token))
    /\ UNCHANGED <<token, user, loading, ca, redirects, clears>>

\* An updateUser that keeps the first name already cached.
UpdateUser_Keep(updatedUser, old) ==
    [updatedUser EXCEPT !.first_name = old.first_name]

\* updateUser, lines 139-141: setUser(updatedUser).
UpdateUser(updatedUser, old) == updatedUser

\* Profile.handleSave after the await: updateUser(response.data) on success,
\* one error notification otherwise.
UpdateResp(r, st, data) ==
    /\ r \in Pending
    /\ r.pc = "awaitUpdate"
    /\ st \in AuthedStatuses(r.hdr)
    /\ data \in (IF st = 200 THEN UpdateReplies(r.hdr, r.patch) ELSE {NullUser})
    /\ calls' = Resolved(r)
    /\ IF Settled(st) = 200
       THEN /\ user' = UpdateUser(data, user)
            /\ token' = token
            /\ redirects' = redirects /\ clears' = clears
       ELSE /\ user' = user
            /\ token' = InterceptToken(st, token)
            /\ redirects' = Redirected(st) /\ clears' = Cleared(st)
    /\ solo' = "no"
    /\ last' = [Handled(Event("updateResp", st, "none", ""), r.kind, Settled(st),
                        1, FALSE, "", "Erreur lors de la mise a jour du profil")
                   EXCEPT !.data = data]
    /\ UNCHANGED <<loading, ca>>

----------------------------------------------------------------------------
(* Callers of fetch: no interceptor runs for them.                         *)

\* AdminApiService.makeRequest, lines 10-15: the Authorization header is
\* always set to `Bearer ${token}`, which for the null of an empty store is
\* the text "Bearer null" (headers are written without their "Bearer " prefix).
AdminHeader(tok) == IF tok = NoToken THEN "null" ELSE tok

\* An AdminDashboard that loads its data for everybody.
AdminLoads_Always(u) == TRUE

\* AdminDashboard, useEffect: loadDashboardData runs unless `!user?.is_admin`.
AdminLoads(u) == u.is_admin

\* AdminDashboard, lines 210-220: what the page renders for the identity.
AdminView(u) == IF u.is_admin THEN "content" ELSE "denied"

\* AdminApiService.makeRequest up to `await fetch`; AdminDashboard loads its
\* data only for an identity with the administrative flag.
AdminSend ==
    /\ CanStart
    /\ AdminLoads(user)
    /\ calls' = Started(Call("admin", "awaitAdmin", "", FALSE, AdminHeader(token)))
    /\ solo' = "no"
    /\ last' = Sent(Event("admin", -1, "none", ""), AdminHeader(token))
    /\ UNCHANGED <<token, user, loading, ca, redirects, clears>>

\* AdminDashboard mounted without the administrative flag: its effect shows
\* one error notification and returns.
AdminDenied ==
    /\ ca.pc # "start"
    /\ ~navPending
    /\ ~AdminLoads(user)
    /\ solo' = "no"
    /\ last' = [Event("adminDenied", -1, "none", "") EXCEPT !.kind = "admin", !.ctoast = 1]
    /\ UNCHANGED <<token, user, loading, ca, calls, redirects, clears>>

\* AdminApiService.makeRequest after `await fetch`: it returns the body or throws.
AdminResp(r, st) ==
    /\ r \in Pending
    /\ r.pc = "awaitAdmin"
    /\ st \in AuthedStatuses(r.hdr)
    /\ calls' = Resolved(r)
    /\ solo' = "no"
    /\ last' = Thrown(Event("adminResp", st, "none", ""), r.kind, 1, FALSE)
    /\ UNCHANGED <<token, user, loading, ca, redirects, clears>>

\* AuthCallback.handleGoogleCallback up to `await fetch`.
GoogleStart ==
    /\ CanStart
    /\ calls' = Started(Call("google", "awaitGoogle", "", FALSE, NoToken))
    /\ solo' = "no"
    /\ last' = Sent(Event("google", -1, "none", ""), NoToken)
    /\ UNCHANGED <<token, user, loading, ca, redirects, clears>>

\* AuthCallback.handleGoogleCallback after the await: on success it stores
\* data.access_token and calls login(data.user, data.access_token) without
\* awaiting it; otherwise it shows the error.
GoogleResp(r, st, u) ==
    /\ r \in Pending
    /\ r.pc = "awaitGoogle"
    /\ st \in GoogleStatuses
    /\ IF st = 200
       THEN /\ token' = TokenOf(u)
            /\ calls' = Continued(r, [r EXCEPT !.pc = "awaitLogin", !.email = ObjEmail])
       ELSE /\ token' = token
            /\ calls' = Resolved(r)
    /\ solo' = "no"
    /\ last' = IF st = 200
                THEN Sent(Thrown(Event("googleResp", st, "none", ""), r.kind, 0, FALSE),
                          RequestHeader(token'))
                ELSE Thrown(Event("googleResp", st, "none", ""), r.kind, 1, TRUE)
    /\ UNCHANGED <<user, loading, ca, redirects, clears>>

----------------------------------------------------------------------------
\* The navigation started by `window.location.href = '/login'` commits: the
\* document is replaced, its requests are dropped, and the application is
\* constructed again over the same localStorage.
PageLoad ==
    /\ navPending
    /\ user' = NullUser
    /\ loading' = TRUE
    /\ ca' = [pc |-> "start", hdr |-> NoToken]
    /\ calls' = EmptyBag
    /\ redirects' = 0
    /\ clears' = 0
    /\ solo' = "no"
    /\ last' = Event("load", -1, "none", "")
    /\ UNCHANGED token

Next ==
    \/ CheckAuthStart
    \/ \E st \in {200, 401, 403, 500, 0} : CheckAuthResp(st)
    \/ \E e \in Users, cred \in BOOLEAN : LoginStart(e, cred)
    \/ \E r \in Pending, st \in {200, 400, 401, 500, 0}, d \in LoginDetails(400) :
           LoginCredResp(r, st, d)
    \/ \E r \in Pending, st \in {200, 401, 403, 500, 0} : LoginMeResp(r, st)
    \/ \E e \in Users : SignupStart(e)
    \/ \E r \in Pending, st \in SignupStatuses, d \in SignupDetails(400) \cup SignupDetails(422) :
           SignupResp(r, st, d)
    \/ Logout
    \/ ApiSend
    \/ \E r \in Pending, st \in {200, 401, 403, 500, 0} : ApiResp(r, st)
    \/ \E p \in Patches : UpdateStart(p)
    \/ \E r \in Pending, st \in {200, 401, 403, 500, 0},
          data \in {NullUser} \cup UNION {UpdateReplies(t, p) : t \in Tokens, p \in Patches} :
           UpdateResp(r, st, data)
    \/ AdminSend
    \/ AdminDenied
    \/ \E r \in Pending, st \in {200, 401, 403, 500, 0} : AdminResp(r, st)
    \/ GoogleStart
    \/ \E r \in Pending, st \in GoogleStatuses, u \in Users : GoogleResp(r, st, u)
    \/ PageLoad

Spec == Init /\ [][Next]_vars

\* A step that leaves at most MaxStartupCalls calls in flight.
InStartup(A) == A /\ BagCardinality(calls') <= MaxStartupCalls

\* The steps of the application with at most MaxStartupCalls calls in flight.
StartupNext ==
    \/ InStartup(CheckAuthStart)
    \/ \E st \in {200, 401, 403, 500, 0} : InStartup(CheckAuthResp(st))
    \/ \E e \in Users, cred \in BOOLEAN : InStartup(LoginStart(e, cred))
    \/ \E r \in Pending, st \in {200, 400, 401, 500, 0}, d \in LoginDetails(400) :
           InStartup(LoginCredResp(r, st, d))
    \/ \E r \in Pending, st \in {200, 401, 403, 500, 0} : InStartup(LoginMeResp(r, st))
    \/ \E e \in Users : InStartup(SignupStart(e))
    \/ \E r \in Pending, st \in SignupStatuses, d \in SignupDetails(400) \cup SignupDetails(422) :
           InStartup(SignupResp(r, st, d))
    \/ InStartup(Logout)
    \/ InStartup(ApiSend)
    \/ \E r \in Pending, st \in {200, 401, 403, 500, 0} : InStartup(ApiResp(r, st))
    \/ \E p \in Patches : InStartup(UpdateStart(p))
    \/ \E r \in Pending, st \in {200, 401, 403, 500, 0},
          data \in {NullUser} \cup UNION {UpdateReplies(t, p) : t \in Tokens, p \in Patches} :
           InStartup(UpdateResp(r, st, data))
    \/ InStartup(AdminSend)
    \/ InStartup(AdminDenied)
    \/ \E r \in Pending, st \in {200, 401, 403, 500, 0} : InStartup(AdminResp(r, st))
    \/ InStartup(GoogleStart)
    \/ \E r \in Pending, st \in GoogleStatuses, u \in Users : InStartup(GoogleResp(r, st, u))
    \/ InStartup(PageLoad)

\* The effect that calls checkAuth runs once the provider is mounted, and the
\* startup identity fetch is eventually answered or fails.
StartupSpec ==
    /\ Init /\ [][StartupNext]_vars
    /\ WF_vars(CheckAuthStart)
    /\ WF_vars(\E st \in {200, 401, 403, 500, 0} : CheckAuthResp(st))

----------------------------------------------------------------------------
(* Properties of the session lifecycle.                                     *)

\* The handlers in which login or signup resolves.
LoginResps == {"loginCredResp", "loginMeResp", "signupResp"}

\* C1: however many calls in flight receive HTTP 401, the store is cleared
\* once and the redirect to the login view is triggered once in this document.
C1_ClearAndRedirectOnce == redirects <= 1 /\ clears <= 1

\* C2: when the controller is Authenticated and a call through the pipeline
\* receives HTTP 401, then once that response is handled the store is empty
\* and the cached identity is null.
C2_401MakesAnonymous ==
    [][(Authenticated /\ redirects' = redirects + 1)
          => (token' = NoToken /\ user' = NullUser)]_vars

\* C3: in every reachable state a cached identity comes with a stored token.
C3_IdentityImpliesToken == user # NullUser => token # NoToken

\* C4: a 401 answer to an admin-service call or to the Google callback call
\* goes through the pipeline: once it is handled the store is empty and the
\* navigation to the login view is under way.
C4_AllCallsThroughPipeline ==
    (last.op \in {"adminResp", "googleResp"} /\ last.st = 401)
        => (token = NoToken /\ navPending)

\* C5 (as stated): once a login whose credential submission was rejected with
\* 400 or 401 has resolved, the store is empty, the cached identity is null and
\* the outcome is a failure.
C5_RejectedLoginEndsEmpty ==
    (last.op = "loginCredResp" /\ last.st \in {400, 401})
        => (token = NoToken /\ user = NullUser /\ last.out = "failure")

\* C5 (amended): a login whose credential submission is rejected returns a
\* failure and leaves the cached identity as it was; it leaves the store as it
\* was on 400 and empties it on 401.
C5_RejectedLoginFrame ==
    [][(last'.op = "loginCredResp" /\ last'.st \in {400, 401})
          => /\ last'.out = "failure"
             /\ user' = user
             /\ token' = (IF last'.st = 401 THEN NoToken ELSE token)]_vars

\* C5 witness: a rejected login that left an existing session in place.
C5_Witness ==
    /\ last.op = "loginCredResp" /\ last.st = 400 /\ last.out = "failure"
    /\ token # NoToken /\ user # NullUser

\* C6: a login or signup call that resolves with a failure outcome, at the
\* credential submission or at the identity fetch that follows it, leaves no
\* cached identity and no token in the store (stated for a call that started
\* Anonymous with an empty store, with nothing else running, and ran alone).
C6_FailureEndsAnonymous ==
    (solo = "anon" /\ last.op \in LoginResps /\ last.out = "failure")
        => (token = NoToken /\ user = NullUser)

\* C7: a login with valid credentials, answered 200 with a token and then with
\* the identity of that token, made after the calls before it have resolved,
\* ends Authenticated with a token in the store and the identity of the
\* submitted e-mail cached.
C7_ValidLoginAuthenticates ==
    (solo # "no" /\ last.op = "loginMeResp" /\ last.st = 200)
        => (Authenticated /\ token # NoToken /\ user.email = last.who)

\* C7 witness: such a login has resolved for the non-admin account.
C7_Witness ==
    /\ solo = "yes" /\ last.op = "loginMeResp" /\ last.st = 200
    /\ Authenticated /\ user.email = "x@example.com" /\ token = TokenOf(user.email)

\* C8: within a login call the token is written only when the credential
\* submission was answered 200, the identity fetch is sent after the token is
\* written (it carries that token) and only then, and success is reported only
\* by the continuation of a successful identity fetch.
C8_LoginStepsOrdered ==
    /\ \A r \in Pending :
          r.pc = "awaitMe" => (r.cred /\ r.hdr = TokenOf(r.email))
    /\ (last.op = "loginCredResp" /\ last.st = 200)
          => /\ token = TokenOf(last.who)
             /\ last.out = "none"
             /\ \E r \in Pending :
                   r.pc = "awaitMe" /\ r.email = last.who /\ r.hdr = token
    /\ (last.op = "loginCredResp" /\ last.st # 200)
          => /\ last.out = "failure"
             /\ solo # "no" => calls = EmptyBag
    /\ last.out = "success"
          => (last.op = "loginMeResp" /\ last.st = 200 /\ user.email = last.who)

\* C8 witness: the credential submission was answered 200, the token is in
\* the store and the identity fetch carrying it is in flight.
C8_Witness ==
    /\ last.op = "loginCredResp" /\ last.st = 200
    /\ \E r \in Pending : r.pc = "awaitMe" /\ r.hdr = token /\ token # NoToken

\* C9: logout, in any state, sends no request and leaves the store empty and
\* the cached identity null; called when already Anonymous with an empty store
\* it leaves both so.
C9_LogoutClears ==
    [][last'.op = "logout"
          => /\ token' = NoToken /\ user' = NullUser
             /\ calls' = calls /\ ca' = ca /\ loading' = loading
             /\ redirects' = redirects
             /\ (Anonymous /\ token = NoToken) => (Anonymous' /\ token' = NoToken)]_vars

\* C9 witness: logout ran while a call was in flight and a session existed no more.
C9_Witness ==
    /\ last.op = "logout" /\ token = NoToken /\ user = NullUser
    /\ calls # EmptyBag

\* C10: at start, with an empty store the controller goes straight to
\* Anonymous and sends no identity fetch; the identity fetch of startup is in
\* flight only with the token that was found.
C10_StartupWithoutToken ==
    /\ (last.op = "checkAuth" /\ token = NoToken)
          => (ca.pc = "done" /\ Anonymous)
    /\ (last.op = "checkAuth" /\ token # NoToken)
          => (ca.pc = "awaitMe" /\ ca.hdr = token /\ loading)
    /\ ca.pc = "awaitMe" => ca.hdr # NoToken

\* C10 witness: startup found no token and settled Anonymous.
C10_Witness ==
    /\ last.op = "checkAuth" /\ token = NoToken
    /\ ca.pc = "done" /\ Anonymous

----------------------------------------------------------------------------
(* Startup, failures and what the user is shown.                           *)

\* The response handlers of the calls made through the axios instance.
PipelineOps == {"checkAuthResp", "loginCredResp", "loginMeResp", "signupResp",
                "apiResp", "updateResp"}

\* The handlers that send a request through the axios instance.
AxiosSends == {"checkAuth", "login", "signup", "api", "update",
               "loginCredResp", "signupResp", "googleResp"}

\* The startup identity fetch is in flight and no identity is cached.
Restoring == ca.pc = "awaitMe" /\ user = NullUser

\* C11: from Restoring, a successful identity fetch leads to Authenticated
\* with the returned identity cached and the token kept; a failed identity
\* fetch leads to Anonymous with the token removed from the store and no
\* identity cached.
C11_RestoringSettles ==
    [][(Restoring /\ last'.op = "checkAuthResp")
          => IF last'.st = 200
             THEN Authenticated' /\ user' = IdentityOf(ca.hdr) /\ token' = token
             ELSE Anonymous' /\ user' = NullUser /\ token' = NoToken]_vars

C11_Witness ==
    /\ last.op = "checkAuthResp" /\ last.st = 403
    /\ Anonymous /\ token = NoToken /\ ca.pc = "done"

\* C12: a response with status >= 500, or a request that fails with no
\* response, changes no session state for any call through the pipeline, the
\* startup identity fetch and the identity fetch of login included: the store
\* keeps its token, the cached identity is unchanged, no redirect occurs.
C12_ServerFaultFrame ==
    [][(last'.op \in PipelineOps /\ last'.st \in {500, 0})
          => (token' = token /\ user' = user /\ redirects' = redirects)]_vars

\* C13: a request carries the Authorization header of the stored token if and
\* only if the store holds a token when it is sent; with an empty store it is
\* sent with no Authorization header.
C13_HeaderIffToken ==
    (last.op \in AxiosSends \cup {"admin"} /\ last.sent # NoSend) => last.sent = token

\* C14: for every failing response the pipeline, after its side effects,
\* rejects with the original error: the caller's catch receives the status
\* of the response, and no failure becomes a success.
C14_FailurePropagates ==
    (last.op \in PipelineOps /\ last.st \notin {200, -1})
        => (last.caught = last.st /\ last.out # "success")

C14_Witness ==
    /\ last.op = "updateResp" /\ last.st = 401 /\ last.caught = 401
    /\ navPending /\ token = NoToken /\ last.ctoast = 1

C16_OneErrorNotification ==
    (last.kind \in {"login", "signup"} /\ last.op \in LoginResps /\ last.st \in {500, 0})
        => last.ptoast + last.ctoast = 1

\* C17: no failure is swallowed silently: for every failing startup identity
\* fetch, login, signup and profile update there is a notification, an
\* inline message or the forced redirect.
C17_NoSilentFailure ==
    (last.kind \in {"checkAuth", "login", "signup", "update"} /\ last.caught # -1)
        => (last.ptoast + last.ctoast >= 1 \/ last.inline \/ last.st = 401)

C19_DetailUnchanged ==
    (last.op = "signupResp" /\ last.st = 400 /\ last.detail # "")
        => last.msg = last.detail

\* C19 (amended): the duplicate-address `detail` of a 400 answered to signup
\* is surfaced as its French translation; any other `detail` string of a 400
\* is surfaced unchanged.
C19_DetailTranslated ==
    (last.op = "signupResp" /\ last.st = 400 /\ last.detail # "")
        => /\ last.out = "failure"
           /\ last.msg = (IF last.detail = DupEmailDetail
                           THEN "Un utilisateur avec cet email existe deja"
                           ELSE last.detail)

C19_Witness ==
    /\ last.op = "signupResp" /\ last.st = 400 /\ last.detail = DupEmailDetail
    /\ last.msg = "Un utilisateur avec cet email existe deja"

\* C20: when the account creation succeeded and the automatic login fails,
\* signup returns the outcome of the login itself, a failure carrying the
\* reason of the login failure, never a success; when both succeed it
\* returns a success.
C20_SignupReturnsLoginOutcome ==
    (last.kind = "signup" /\ last.op \in {"loginCredResp", "loginMeResp"})
        => /\ last.st # 200
                => /\ last.out = "failure"
                   /\ last.caught = last.st
                   /\ last.msg = LoginMessage(last.st, last.detail)
           /\ (last.op = "loginMeResp" /\ last.st = 200) => last.out = "success"
           /\ last.out = "success" => (last.op = "loginMeResp" /\ last.st = 200)

C20_Witness ==
    /\ last.kind = "signup" /\ last.op = "loginMeResp" /\ last.st = 500
    /\ last.out = "failure" /\ last.caught = 500
    /\ last.msg = "Erreur serveur, veuillez reessayer plus tard"

----------------------------------------------------------------------------
(* Messages, views and interleavings.                                      *)

\* C21: the failure message of login is a function of the failure kind: a
\* 400 with a detail string gives that string, a 400 without detail the
\* bad-credentials default, a 401 a message distinct from it, a status >= 500
\* the server-error message, no response the cannot-contact message; the
\* outcome carries it and the login form shows the same text inline.
C21_LoginMessageByKind ==
    (last.kind = "login" /\ last.op \in {"loginCredResp", "loginMeResp"}
                        /\ last.st \in {400, 401, 500, 0})
        => /\ last.out = "failure"
           /\ last.shown = last.msg
           /\ last.msg = (IF last.st = 400 /\ last.detail # "" THEN last.detail
                           ELSE IF last.st = 400 THEN "Email ou mot de passe incorrect"
                           ELSE IF last.st = 401 THEN "Authentification echouee"
                           ELSE IF last.st = 500
                                THEN "Erreur serveur, veuillez reessayer plus tard"
                           ELSE "Impossible de contacter le serveur")
           /\ (last.st = 401 => last.msg # "Email ou mot de passe incorrect")

C21_Witness ==
    /\ last.kind = "login" /\ last.op = "loginCredResp" /\ last.st = 400
    /\ last.who = "x@example.com" /\ last.detail = "Incorrect email or password"
    /\ last.msg = "Incorrect email or password" /\ last.shown = last.msg

\* C22: a profile update replaces the whole cached identity with the
\* representation the server returned, and only once the round trip has
\* succeeded: nothing of the previous identity or of the submitted patch
\* survives unless the server returned it, and a failed update leaves the
\* cached identity unchanged.
C22_UpdateReplacesIdentity ==
    [][/\ last'.op = "update" => user' = user
       /\ last'.op = "updateResp"
             => IF last'.st = 200 THEN user' = last'.data ELSE user' = user]_vars

C22_Witness ==
    /\ last.op = "updateResp" /\ last.st = 200
    /\ user = last.data /\ user.first_name = "Ann"

C24_AdminOnlyWithFlag ==
    /\ AdminView(user) = "content" <=> user.is_admin
    /\ last.op = "admin" => (user.is_admin /\ last.sent # NoSend)
    /\ last.op = "adminDenied"
          => /\ ~user.is_admin /\ AdminView(user) = "denied"
             /\ last.sent = NoSend /\ ~navPending

C24_Witness ==
    /\ last.op = "adminDenied" /\ Authenticated /\ user.email = "x@example.com"
    /\ AdminView(user) = "denied" /\ calls = EmptyBag /\ redirects = 0

\* C25: once the Google callback endpoint has answered success with
\* {access_token, user}, and before the callback page navigates, the store
\* holds that token and the cached identity is that user (Authenticated).
C25_GoogleCallbackLogsIn ==
    (last.op = "googleResp" /\ last.st = 200)
        => /\ token # NoToken
           /\ Authenticated
           /\ user.email = IdentityOf(token).email

\* C26: a 401 answered to a request that carried another token than the
\* stored one, or none, does not remove the token a login has written since
\* the request was sent; a stale startup identity fetch that fails after a
\* fresh login leaves the fresh session in place.
C26_Stale401KeepsFreshToken ==
    [][(/\ last.op = "loginMeResp" /\ last.kind = "login" /\ last.st = 200
        /\ token = TokenOf(last.who)
        /\ last'.st = 401
        /\ \/ last'.op = "checkAuthResp" /\ ca.hdr # token
           \/ \E r \in Pending : /\ r.pc \in {"awaitMe", "awaitApi", "awaitUpdate"}
                                  /\ calls' = Resolved(r)
                                  /\ r.hdr # token)
          => token' = token]_vars

\* C27: when two login calls for different users have both resolved,
\* whatever the order of their network steps, the cached identity is the
\* one the server associates with the stored token.
C27_InterleavedLoginsAgree ==
    [][(/\ last.op = "loginMeResp" /\ last.kind = "login" /\ last.st = 200
        /\ last'.op = "loginMeResp" /\ last'.kind = "login" /\ last'.st = 200
        /\ last'.who # last.who
        /\ calls' = EmptyBag /\ ca.pc = "done"
        /\ token' # NoToken)
          => user'.email = IdentityOf(token').email]_vars

\* C28: after logout, no continuation of a login, signup or checkAuth call
\* started before it writes a token or sets the cached identity.
C28_LogoutStopsContinuations ==
    [][(/\ last.op = "logout"
        /\ last'.op \in {"loginCredResp", "loginMeResp", "signupResp", "checkAuthResp"})
          => (token' = NoToken /\ user' = NullUser)]_vars

C29_StartupSettles == loading ~> (~loading \/ navPending)

C29_Witness ==
    /\ last.op = "checkAuthResp" /\ last.st = 0
    /\ ~loading /\ ca.pc = "done" /\ ~navPending

====
